---- MODULE Spec2Model ----
(***************************************************************************)
(* Model of custom_components/aquarea/__init__.py: the lifecycle callbacks  *)
(* of the Aquarea Smart Cloud integration (setup, unload, migrate) and the  *)
(* base entity constructor.  A setup call is split at its await points, so  *)
(* calls for different configuration entries interleave on the event loop. *)
(***************************************************************************)
EXTENDS Integers, Sequences, FiniteSets, TLC

\* ---------------------------------------------------------------- bounds
MaxCalls == 2          \* setup calls started over a run
MaxRegistry == 2       \* entries of the host's entity registry and device registry

Entries == {"e1", "e2"}        \* configuration entry ids
DeviceIds == {"d1", "d2"}      \* device ids the vendor cloud may list

\* ------------------------------------------------------------- constants
DOMAIN_KEY == "aquarea"
\* the identity of an object: the entry whose setup call constructed it and its
\* number among the objects constructed for that entry
ObjectId(e, n) == <<e, n>>
None == ObjectId("-", 0)       \* CLIENT: None
NoDevice == "-"

PLATFORMS == <<"sensor", "climate", "binary_sensor", "water_heater">>

\* an exception value; type "None" stands for "no exception"
Exc(type, code, cause, cause_code) ==
    [type |-> type, error_code |-> code, cause |-> cause, cause_code |-> cause_code]
NoExc == Exc("None", "None", "None", "None")

AuthenticationErrorCodes ==
    {"INVALID_USERNAME_OR_PASSWORD", "INVALID_CREDENTIALS", "API_ERROR"}

AuthenticationError(code) == Exc("AuthenticationError", code, "None", "None")
RequestFailedError == Exc("RequestFailedError", "None", "None", "None")

\* what a direct call of the vendor client may raise
VendorErrors ==
    {AuthenticationError(c) : c \in AuthenticationErrorCodes} \cup {RequestFailedError}

\* the device descriptor the vendor returns for a device id
DeviceDescriptor(d) ==
    [device_id |-> d,
     name |-> IF d = "d1" THEN "Heat pump" ELSE "Annex " \o d,
     manufacturer |-> IF d = "d1" THEN "Panasonic" ELSE "Aquarea " \o d,
     version |-> IF d = "d1" THEN "1.0" ELSE "2.0"]

RECURSIVE SeqsNoDup(_)
SeqsNoDup(S) ==
    IF S = {} THEN {<< >>}
    ELSE {<< >>} \cup UNION {{<<x>> \o s : s \in SeqsNoDup(S \ {x})} : x \in S}

\* the lists get_devices may return: distinct devices, in any order
DeviceLists == {[i \in DOMAIN s |-> DeviceDescriptor(s[i])] : s \in SeqsNoDup(DeviceIds)}

\* ----------------------------------------------------------------- state
VARIABLES
    hass_data,   \* hass.data: {} or {DOMAIN: {entry_id: {CLIENT, DEVICES}}}
    next_id,     \* per entry: number of the next object constructed for it
    calls,       \* setup calls started so far
    loaded,      \* host: the entry's last setup returned True and it is not unloaded
    pc,          \* per entry: where its running setup call is suspended
    frame,       \* per entry: locals of the current or last setup call
    trace,       \* per entry: the awaits and stores of the current or last call
    result,      \* per entry: how the last lifecycle call ended
    entities,    \* per entry: the entities the platforms built from its coordinators
    ent_reg,     \* host: the entity registry
    dev_reg,     \* host: the device registry
    migration    \* the last async_migrate_entry call: its entry, device_guid and return

vars == <<hass_data, next_id, calls, loaded, pc, frame, trace, result, entities,
          ent_reg, dev_reg, migration>>

\* ---------------------------------------------------------- dict helpers
Put(f, k, v) == [x \in (DOMAIN f) \cup {k} |-> IF x = k THEN v ELSE f[x]]
Pop(f, k) == [x \in (DOMAIN f) \ {k} |-> f[x]]
EmptyDict == [x \in {} |-> 0]
Values(f) == {f[x] : x \in DOMAIN f}

Registry == IF DOMAIN_KEY \in DOMAIN hass_data THEN hass_data[DOMAIN_KEY] ELSE EmptyDict
HasSlot(e) == e \in DOMAIN Registry

\* lines 28-36
initialize_data(hd, e) ==
    LET hd1 == IF DOMAIN_KEY \notin DOMAIN hd THEN Put(hd, DOMAIN_KEY, EmptyDict) ELSE hd
    IN  IF e \notin DOMAIN hd1[DOMAIN_KEY]
        THEN Put(hd1, DOMAIN_KEY,
                 Put(hd1[DOMAIN_KEY], e, [CLIENT |-> None, DEVICES |-> EmptyDict]))
        ELSE hd1

\* line 45 without its test: a client constructed by every call
AlwaysCreateClient(client) == TRUE
\* line 45: "if not client"
MustCreateClient(client) == client = None

\* line 50
StoreClient(hd, e, client) ==
    Put(hd, DOMAIN_KEY, Put(hd[DOMAIN_KEY], e, [hd[DOMAIN_KEY][e] EXCEPT !.CLIENT = client]))

\* lines 59-61: the coordinator constructed for one device
AquareaDataUpdateCoordinator(id, e, client, device_info) ==
    [id |-> id, entry |-> e, client |-> client, device |-> device_info]

\* coordinator.device: the descriptor the coordinator was given
CoordinatorDevice(coordinator) == coordinator.device

\* line 62, with one DEVICES dict aliased by every entry's slot
StoreCoordinatorShared(hd, e, key, coordinator) ==
    Put(hd, DOMAIN_KEY,
        [x \in DOMAIN hd[DOMAIN_KEY] |->
            [hd[DOMAIN_KEY][x] EXCEPT !.DEVICES = Put(@, key, coordinator)]])

\* line 62
StoreCoordinator(hd, e, key, coordinator) ==
    Put(hd, DOMAIN_KEY,
        Put(hd[DOMAIN_KEY], e,
            [hd[DOMAIN_KEY][e] EXCEPT !.DEVICES = Put(@, key, coordinator)]))

\* line 62 keyed by the device's name
CoordinatorKeyByName(device) == device.name
\* line 62: the key a coordinator is stored under
CoordinatorKey(device) == device.device_id

\* line 58 ending one device early
LoopDoneEarly(devices, i) == i >= Len(devices)
\* line 58: the for loop is over once every device has had its iteration
LoopDone(devices, i) == i > Len(devices)

\* lines 66-73: what the call does with an exception raised inside the try
ReauthCodes == {"INVALID_USERNAME_OR_PASSWORD", "INVALID_CREDENTIALS"}
\* lines 66-73 with only the first of the two codes tested
SetupOutcomeOneCode(exc) ==
    IF exc.type = "AuthenticationError"
    THEN IF exc.error_code = "INVALID_USERNAME_OR_PASSWORD"
         THEN "ConfigEntryAuthFailed"
         ELSE "True"
    ELSE exc.type
\* lines 66-73: "True" is the fall through to the return of line 73, any other
\* value the exception that leaves the call
SetupOutcome(exc) ==
    IF exc.type = "AuthenticationError"
    THEN IF exc.error_code \in ReauthCodes
         THEN "ConfigEntryAuthFailed"
         ELSE "True"
    ELSE exc.type

\* lines 110-126 with the device's name taken for its id and manufacturer
BaseEntityByName(coordinator) ==
    LET device == CoordinatorDevice(coordinator)
    IN  [coordinator |-> coordinator,
         attrs |-> [name |-> device.name, id |-> device.device_id],
         unique_id |-> device.name,
         name |-> device.name,
         device_info |-> [identifiers |-> {<<DOMAIN_KEY, device.device_id>>},
                          manufacturer |-> device.name,
                          model |-> "",
                          name |-> device.name,
                          sw_version |-> device.version]]
\* lines 110-126
AquareaBaseEntity(coordinator) ==
    LET device == CoordinatorDevice(coordinator)
    IN  [coordinator |-> coordinator,
         attrs |-> [name |-> device.name, id |-> device.device_id],
         unique_id |-> device.device_id,
         name |-> device.name,
         device_info |-> [identifiers |-> {<<DOMAIN_KEY, device.device_id>>},
                          manufacturer |-> device.manufacturer,
                          model |-> "",
                          name |-> device.name,
                          sw_version |-> device.version]]

\* the platforms build their entities from the coordinators of the entry's slot
PlatformEntities(hd, e) ==
    {[platform |-> PLATFORMS[p], entity |-> AquareaBaseEntity(c)] :
        p \in DOMAIN PLATFORMS, c \in Values(hd[DOMAIN_KEY][e].DEVICES)}

\* line 79 outside the test of line 78
AlwaysPop(unload_ok) == TRUE
\* line 78: the slot is dropped when the platforms unloaded
ShouldPop(unload_ok) == unload_ok

Event(op, dev, exc) == [op |-> op, dev |-> dev, exc |-> exc, ok |-> exc = NoExc]
Ret(call, value) == [call |-> call, value |-> value]
IdleFrame == [client |-> None, new_client |-> FALSE, devices |-> << >>, i |-> 0, id0 |-> 0]

\* ---------------------------------------------------------------- actions
Finish(e, res) ==
    /\ pc' = [pc EXCEPT ![e] = "idle"]
    /\ result' = [result EXCEPT ![e] = Ret("setup", res)]
    /\ loaded' = [loaded EXCEPT ![e] = (res = "True")]

MigrationVars == <<ent_reg, dev_reg, migration>>

\* lines 42-50, up to the first await; the host runs one lifecycle call of an
\* entry at a time
SetupBegin(e) ==
    /\ pc[e] = "idle"
    /\ calls < MaxCalls
    /\ LET hd1 == initialize_data(hass_data, e)
           stored == hd1[DOMAIN_KEY][e].CLIENT
           create == MustCreateClient(stored)
           client == IF create THEN ObjectId(e, next_id[e]) ELSE stored
       IN  /\ hass_data' = IF create THEN StoreClient(hd1, e, client) ELSE hd1
           /\ next_id' = [next_id EXCEPT ![e] = IF create THEN @ + 1 ELSE @]
           /\ frame' = [frame EXCEPT ![e] =
                  [client |-> client, new_client |-> create, devices |-> << >>,
                   i |-> 0, id0 |-> next_id[e]]]
    /\ calls' = calls + 1
    /\ pc' = [pc EXCEPT ![e] = "login"]
    /\ trace' = [trace EXCEPT ![e] = << >>]
    /\ result' = [result EXCEPT ![e] = Ret("setup", "running")]
    /\ UNCHANGED <<loaded, entities, MigrationVars>>

\* an await inside the try raised: lines 66-73 decide how the call ends
Raise(e, op, dev, exc) ==
    /\ trace' = [trace EXCEPT ![e] = Append(@, Event(op, dev, exc))]
    /\ Finish(e, SetupOutcome(exc))
    /\ UNCHANGED <<hass_data, next_id, calls, frame, entities, MigrationVars>>

\* line 53: await client.login()
Login(e) ==
    /\ pc[e] = "login"
    /\ \E out \in {NoExc} \cup VendorErrors :
         IF out = NoExc
         THEN /\ pc' = [pc EXCEPT ![e] = "get_devices"]
              /\ trace' = [trace EXCEPT ![e] = Append(@, Event("login", NoDevice, NoExc))]
              /\ UNCHANGED <<hass_data, next_id, calls, loaded, frame, result, entities,
                             MigrationVars>>
         ELSE Raise(e, "login", NoDevice, out)

\* lines 58-63: the loop moves to devices[i]: when there is one, construct its
\* coordinator and store it under the device's id, up to the await of line 63
LoopEnter(e, devices, i, tr) ==
    IF LoopDone(devices, i)
    THEN /\ pc' = [pc EXCEPT ![e] = "forward"]
         /\ frame' = [frame EXCEPT ![e].devices = devices, ![e].i = i]
         /\ trace' = [trace EXCEPT ![e] = tr]
         /\ UNCHANGED <<hass_data, next_id>>
    ELSE LET device == devices[i]
             coordinator ==
                 AquareaDataUpdateCoordinator(ObjectId(e, next_id[e]), e,
                                              frame[e].client, device)
         IN  /\ hass_data' =
                    StoreCoordinator(hass_data, e, CoordinatorKey(device), coordinator)
             /\ next_id' = [next_id EXCEPT ![e] = @ + 1]
             /\ pc' = [pc EXCEPT ![e] = "refresh"]
             /\ frame' = [frame EXCEPT ![e].devices = devices, ![e].i = i]
             /\ trace' = [trace EXCEPT ![e] =
                    Append(tr, Event("store", device.device_id, NoExc))]

\* line 55: await client.get_devices(include_long_id=True)
GetDevices(e) ==
    /\ pc[e] = "get_devices"
    /\ \/ \E devices \in DeviceLists :
            /\ LoopEnter(e, devices, 1,
                         Append(trace[e], Event("get_devices", NoDevice, NoExc)))
            /\ UNCHANGED <<calls, loaded, result, entities, MigrationVars>>
       \/ \E exc \in VendorErrors : Raise(e, "get_devices", NoDevice, exc)

\* what the first refresh of a coordinator raises when it fails: the host's
\* coordinator contract turns a failed update into one of its own setup
\* failures; cause and cause_code say what the vendor client raised underneath
FirstRefreshErrors ==
    {Exc("ConfigEntryAuthFailed", "None", "AuthenticationError", "INVALID_CREDENTIALS"),
     Exc("ConfigEntryNotReady", "None", "AuthenticationError", "INVALID_CREDENTIALS"),
     Exc("ConfigEntryNotReady", "None", "RequestFailedError", "None")}

\* line 63: await coordinator.async_config_entry_first_refresh()
FirstRefresh(e) ==
    /\ pc[e] = "refresh"
    /\ LET d == frame[e].devices[frame[e].i].device_id
       IN  \/ /\ LoopEnter(e, frame[e].devices, frame[e].i + 1,
                           Append(trace[e], Event("refresh", d, NoExc)))
              /\ UNCHANGED <<calls, loaded, result, entities, MigrationVars>>
           \/ \E exc \in FirstRefreshErrors : Raise(e, "refresh", d, exc)

\* what forwarding the platforms may raise
ForwardErrors == {Exc("PlatformSetupError", "None", "None", "None")}

\* line 65: await hass.config_entries.async_forward_entry_setups(entry, PLATFORMS),
\* then line 73
ForwardEntrySetups(e) ==
    /\ pc[e] = "forward"
    /\ \/ /\ trace' = [trace EXCEPT ![e] = Append(@, Event("forward", NoDevice, NoExc))]
          /\ entities' = [entities EXCEPT ![e] = PlatformEntities(hass_data, e)]
          /\ Finish(e, "True")
          /\ UNCHANGED <<hass_data, next_id, calls, frame, MigrationVars>>
       \/ \E exc \in ForwardErrors : Raise(e, "forward", NoDevice, exc)

\* lines 76-81; the host unloads only an entry that is set up and has no
\* lifecycle call running
async_unload_entry(e) ==
    /\ pc[e] = "idle"
    /\ loaded[e]
    /\ \E unload_ok \in BOOLEAN :
         /\ hass_data' = IF ShouldPop(unload_ok)
                         THEN Put(hass_data, DOMAIN_KEY, Pop(hass_data[DOMAIN_KEY], e))
                         ELSE hass_data
         /\ trace' = [trace EXCEPT ![e] =
                <<[Event("unload_platforms", NoDevice, NoExc) EXCEPT !.ok = unload_ok]>>]
         /\ result' = [result EXCEPT ![e] =
                Ret("unload", IF unload_ok THEN "True" ELSE "False")]
         /\ loaded' = [loaded EXCEPT ![e] = ~unload_ok]
         /\ entities' = [entities EXCEPT ![e] = IF unload_ok THEN {} ELSE @]
    /\ UNCHANGED <<next_id, calls, pc, frame, MigrationVars>>

LifecycleInit ==
    /\ hass_data = EmptyDict
    /\ next_id = [e \in Entries |-> 1]
    /\ calls = 0
    /\ loaded = [e \in Entries |-> FALSE]
    /\ pc = [e \in Entries |-> "idle"]
    /\ frame = [e \in Entries |-> IdleFrame]
    /\ trace = [e \in Entries |-> << >>]
    /\ result = [e \in Entries |-> Ret("none", "none")]
    /\ entities = [e \in Entries |-> {}]

Init ==
    /\ LifecycleInit
    /\ ent_reg = << >>
    /\ dev_reg = {}
    /\ migration = [called |-> FALSE, entry |-> "-", device_guid |-> "unset", ret |-> FALSE]

\* ------------------------------------------------------------- migration
\* the entries the host's registries may hold
DevicePool ==
    {[id |-> "A", config_entry |-> "e1", identifiers |-> {<<DOMAIN_KEY, "guidA">>}],
     [id |-> "B", config_entry |-> "e1", identifiers |-> {<<"other", "x">>}],
     [id |-> "C", config_entry |-> "e2",
      identifiers |-> {<<"other", "y">>, <<DOMAIN_KEY, "guidC">>}]}
EntityPool ==
    {[entity_id |-> "sensor.a", config_entry |-> "e1", device_id |-> "A"],
     [entity_id |-> "sensor.b", config_entry |-> "e1", device_id |-> "B"],
     [entity_id |-> "sensor.orphan", config_entry |-> "e1", device_id |-> "None"],
     [entity_id |-> "sensor.c", config_entry |-> "e2", device_id |-> "C"]}

\* lines 87-89
DevicesForConfigEntry(reg, entry_id) == {d \in reg : d.config_entry = entry_id}
\* lines 90-92
EntitiesForConfigEntry(reg, entry_id) ==
    LET OfEntry(x) == x.config_entry = entry_id IN SelectSeq(reg, OfEntry)

\* lines 98-100: the first identifier of this domain, else None
DeviceGuid(device) ==
    LET ids == {id \in device.identifiers : id[1] = DOMAIN_KEY}
    IN  IF ids = {} THEN "None" ELSE (CHOOSE id \in ids : TRUE)[2]

\* lines 94-100: the loop over the entities, from entity i on; device_guid is
\* assigned only for an entity whose device is found
RECURSIVE MigrateLoop(_, _, _, _)
MigrateLoop(entity_list, devices, i, device_guid) ==
    IF i > Len(entity_list)
    THEN device_guid
    ELSE LET found == {d \in devices : d.id = entity_list[i].device_id}
         IN  IF found # {}
             THEN MigrateLoop(entity_list, devices, i + 1,
                              DeviceGuid(CHOOSE d \in found : TRUE))
             ELSE MigrateLoop(entity_list, devices, i + 1, device_guid)

\* line 101 returning whether an identifier was computed
MigrateReturnGuid(device_guid) == device_guid \notin {"unset", "None"}
\* line 101
MigrateReturn(device_guid) == FALSE

\* lines 84-101
async_migrate_entry(e) ==
    /\ LET devices == DevicesForConfigEntry(dev_reg, e)
           entity_list == EntitiesForConfigEntry(ent_reg, e)
           device_guid == MigrateLoop(entity_list, devices, 1, "unset")
       IN  migration' = [called |-> TRUE, entry |-> e, device_guid |-> device_guid,
                         ret |-> MigrateReturn(device_guid)]
    /\ UNCHANGED <<hass_data, next_id, calls, loaded, pc, frame, trace, result, entities,
                   ent_reg, dev_reg>>

MigrateInit ==
    /\ LifecycleInit
    /\ ent_reg \in {r \in SeqsNoDup(EntityPool) : Len(r) <= MaxRegistry}
    /\ dev_reg \in {r \in SUBSET DevicePool : Cardinality(r) <= MaxRegistry}
    /\ migration = [called |-> FALSE, entry |-> "-", device_guid |-> "unset", ret |-> FALSE]

MigrateNext == \E e \in Entries : async_migrate_entry(e)

MigrateSpec == MigrateInit /\ [][MigrateNext]_vars

Next ==
    \/ \E e \in Entries : SetupBegin(e)
    \/ \E e \in Entries : Login(e)
    \/ \E e \in Entries : GetDevices(e)
    \/ \E e \in Entries : FirstRefresh(e)
    \/ \E e \in Entries : ForwardEntrySetups(e)
    \/ \E e \in Entries : async_unload_entry(e)

Spec == Init /\ [][Next]_vars

\* ------------------------------------------------------------- properties
Devs(e) == Registry[e].DEVICES
Last(t) == t[Len(t)]
SetupEnded(e) == pc[e] = "idle" /\ result[e].call = "setup"
SetupRaisedAt(e, ops) ==
    /\ SetupEnded(e)
    /\ Len(trace[e]) > 0
    /\ ~Last(trace[e]).ok
    /\ Last(trace[e]).op \in ops
DiscoveredIds(e) == {frame[e].devices[i].device_id : i \in DOMAIN frame[e].devices}
\* the keys of the entry's device map whose coordinator the current or last
\* setup call constructed
CreatedInCall(e) ==
    IF HasSlot(e) THEN {k \in DOMAIN Devs(e) : Devs(e)[k].id[2] >= frame[e].id0} ELSE {}
HasEvent(e, op, d) ==
    \E j \in DOMAIN trace[e] :
        trace[e][j].op = op /\ trace[e][j].dev = d /\ trace[e][j].ok
IsReauthError(type, code) == type = "AuthenticationError" /\ code \in ReauthCodes

\* C1: a setup call that finds a client in the entry's slot constructs no
\* object and keeps that client for itself, and the CLIENT of a slot never
\* changes for as long as the slot exists.
C1_SetupReusesClient ==
    [][\A e \in Entries :
        (HasSlot(e) /\ Registry[e].CLIENT # None /\ HasSlot(e)') =>
            /\ Registry'[e].CLIENT = Registry[e].CLIENT
            /\ (pc[e] = "idle" /\ pc'[e] = "login") =>
                   /\ next_id' = next_id
                   /\ ~frame'[e].new_client
                   /\ frame'[e].client = Registry[e].CLIENT]_vars

C1_Witness ==
    \E e \in Entries :
        /\ pc[e] = "login"
        /\ ~frame[e].new_client
        /\ frame[e].client = Registry[e].CLIENT

\* C2 as stated: whenever the vendor client raised an authentication error
\* with a re-authentication code during a setup call (from login, from
\* discovery or underneath a first refresh), the call ended with
\* ConfigEntryAuthFailed and constructed no coordinator of the device map.
C2_Original ==
    \A e \in Entries :
        (/\ SetupRaisedAt(e, {"login", "get_devices", "refresh"})
         /\ LET x == Last(trace[e]).exc
            IN  \/ IsReauthError(x.type, x.error_code)
                \/ IsReauthError(x.cause, x.cause_code)) =>
            /\ result[e].value = "ConfigEntryAuthFailed"
            /\ CreatedInCall(e) = {}

\* C2 amended: when login() or get_devices() raised an authentication error
\* with a re-authentication code, the call ended with ConfigEntryAuthFailed,
\* did not report success and constructed no coordinator of the device map.
C2_AuthFailedBeforeCoordinators ==
    \A e \in Entries :
        (/\ SetupRaisedAt(e, {"login", "get_devices"})
         /\ IsReauthError(Last(trace[e]).exc.type, Last(trace[e]).exc.error_code)) =>
            /\ result[e].value = "ConfigEntryAuthFailed"
            /\ ~loaded[e]
            /\ CreatedInCall(e) = {}
            /\ \A j \in DOMAIN trace[e] : trace[e][j].op # "store"

C2_Witness ==
    \E e \in Entries :
        /\ SetupRaisedAt(e, {"get_devices"})
        /\ Last(trace[e]).exc = AuthenticationError("INVALID_CREDENTIALS")
        /\ result[e].value = "ConfigEntryAuthFailed"
        /\ HasSlot(e) /\ DOMAIN Devs(e) # {}

\* C3: a setup call in which the vendor client raised an authentication
\* error with any other code does not return success.
C3_OtherAuthErrorPropagates ==
    \A e \in Entries :
        (/\ SetupRaisedAt(e, {"login", "get_devices"})
         /\ Last(trace[e]).exc.type = "AuthenticationError"
         /\ Last(trace[e]).exc.error_code \notin ReauthCodes) =>
            /\ result[e].value # "True"
            /\ ~loaded[e]

\* C4: after a setup call that discovered its devices, forwarded the
\* platforms and returned True, the device map holds as many coordinators as
\* the discovery returned devices, each under its own device's id.
C4_CoordinatorsMatchDiscovery ==
    \A e \in Entries :
        (/\ SetupEnded(e)
         /\ result[e].value = "True"
         /\ HasEvent(e, "forward", NoDevice)) =>
            /\ Cardinality(DOMAIN Devs(e)) = Len(frame[e].devices)
            /\ \A k \in DOMAIN Devs(e) : CoordinatorDevice(Devs(e)[k]).device_id = k

\* C5: an unload call returns the host's platform-unload result; when that is
\* success the entry's slot is gone from the registry, and when it is failure
\* the slot is as it was.
UnloadStep(e) ==
    /\ pc[e] = "idle"
    /\ loaded[e]
    /\ pc'[e] = "idle"
    /\ result'[e] # result[e] \/ loaded'[e] # loaded[e]
C5_UnloadDropsSlotIffOk ==
    [][\A e \in Entries :
        UnloadStep(e) =>
            /\ result'[e].call = "unload"
            /\ result'[e].value = (IF trace'[e][1].ok THEN "True" ELSE "False")
            /\ trace'[e][1].ok => ~HasSlot(e)'
            /\ ~trace'[e][1].ok => (HasSlot(e)' /\ Registry'[e] = Registry[e])
            /\ \A f \in Entries \ {e} :
                   HasSlot(f)' = HasSlot(f) /\ (HasSlot(f) => Registry'[f] = Registry[f])]_vars

C5_Witness ==
    \E e, f \in Entries :
        /\ result[e] = Ret("unload", "True") /\ ~HasSlot(e)
        /\ result[f] = Ret("unload", "False") /\ HasSlot(f) /\ DOMAIN Devs(f) # {}

\* C6: every slot holds one client, constructed for that entry alone; every
\* coordinator of a slot belongs to the slot's entry and client and is the
\* only one of its (entry id, device id) pair; no coordinator instance is in
\* the device maps of two entries.
LiveCoordinators == UNION {Values(Devs(e)) : e \in DOMAIN Registry}
C6_OnePerEntryAndDevice ==
    /\ \A e \in DOMAIN Registry :
          \A k \in DOMAIN Devs(e) :
              /\ Devs(e)[k].entry = e
              /\ Devs(e)[k].client = Registry[e].CLIENT
              /\ Devs(e)[k].client # None
    /\ \A e \in Entries : \A d \in DeviceIds :
          Cardinality({c \in LiveCoordinators :
                          c.entry = e /\ CoordinatorDevice(c).device_id = d}) <= 1
    /\ \A e, f \in DOMAIN Registry :
          e # f =>
              /\ {c.id : c \in Values(Devs(e))} \cap {c.id : c \in Values(Devs(f))} = {}
              /\ Registry[e].CLIENT = None \/ Registry[e].CLIENT # Registry[f].CLIENT

C6_Witness ==
    \E e, f \in DOMAIN Registry :
        /\ e # f
        /\ \E d \in DeviceIds : d \in DOMAIN Devs(e) /\ d \in DOMAIN Devs(f)

\* C7: async_migrate_entry returns False whatever the registries hold.
C7_MigrateReturnsFalse == migration.called => migration.ret = FALSE

C7_Witness ==
    /\ migration.called
    /\ migration.device_guid \notin {"unset", "None"}
    /\ migration.ret = FALSE

\* C8: every entity built from a coordinator has the coordinator's device id
\* as its unique id and the device descriptor's manufacturer in its device
\* info.
C8_EntityIdAndManufacturer ==
    \A e \in Entries : \A x \in entities[e] :
        LET device == CoordinatorDevice(x.entity.coordinator)
        IN  /\ x.entity.unique_id = device.device_id
            /\ x.entity.device_info.manufacturer = device.manufacturer
            /\ x.entity.device_info.manufacturer = DeviceDescriptor(device.device_id).manufacturer

C8_Witness ==
    \E e \in Entries : \E x \in entities[e] :
        /\ x.entity.unique_id = "d2"
        /\ x.entity.name # x.entity.unique_id
        /\ x.entity.device_info.manufacturer # "Panasonic"

\* C9: in the trace of a setup call, login is the first await and discovery
\* the second; nothing follows a failed await; every store follows the
\* discovery; the platforms are forwarded at most once, last, and only when
\* every discovered device has its coordinator, constructed by this call, in
\* the device map and its first refresh done.
IsSetupTrace(e) == result[e].call = "setup"
C9_SetupOrder ==
    \A e \in Entries : IsSetupTrace(e) =>
        LET t == trace[e] IN
        \A j \in DOMAIN t :
            /\ (j < Len(t)) => t[j].ok
            /\ (t[j].op = "login") <=> (j = 1)
            /\ (t[j].op = "get_devices") <=> (j = 2)
            /\ (t[j].op = "store") =>
                   /\ j > 2
                   /\ \A i \in 3..(j - 1) : t[i].op \in {"store", "refresh"}
            /\ (t[j].op = "refresh") =>
                   /\ t[j - 1].op = "store" /\ t[j - 1].dev = t[j].dev
                   /\ t[j].dev \in DOMAIN Devs(e)
            /\ (t[j].op = "forward") =>
                   /\ j = Len(t)
                   /\ \A i \in 1..(j - 1) : t[i].ok /\ t[i].op # "forward"
                   /\ \A d \in DiscoveredIds(e) :
                          /\ HasEvent(e, "store", d)
                          /\ HasEvent(e, "refresh", d)
                          /\ d \in CreatedInCall(e)

C9_Witness ==
    \E e \in Entries :
        /\ SetupEnded(e)
        /\ result[e].value = "True"
        /\ Len(frame[e].devices) = 2
        /\ Last(trace[e]) = Event("forward", NoDevice, NoExc)

\* C10 as stated: when the first refresh of one discovered device failed,
\* every other discovered device has its coordinator constructed by this
\* call, stored in the device map and refreshed.
C10_Original ==
    \A e \in Entries :
        SetupRaisedAt(e, {"refresh"}) =>
            \A d \in DiscoveredIds(e) \ {Last(trace[e]).dev} :
                /\ d \in CreatedInCall(e)
                /\ HasEvent(e, "refresh", d)

\* C10 amended: when the first refresh of the i-th discovered device failed,
\* the loop stopped there and the platforms were not forwarded; the devices
\* before it have their coordinators stored under their ids and refreshed; the
\* failing device's coordinator is stored; the devices after it got no
\* coordinator from this call.
C10_RefreshFailureStopsLoop ==
    \A e \in Entries :
        SetupRaisedAt(e, {"refresh"}) =>
            LET devices == frame[e].devices
                i == frame[e].i
            IN  /\ devices[i].device_id = Last(trace[e]).dev
                /\ ~HasEvent(e, "forward", NoDevice)
                /\ \A j \in DOMAIN devices :
                      LET d == devices[j].device_id
                      IN  /\ (j < i) => (d \in CreatedInCall(e) /\ HasEvent(e, "refresh", d))
                          /\ (j = i) => (d \in CreatedInCall(e) /\ ~HasEvent(e, "refresh", d))
                          /\ (j > i) => (d \notin CreatedInCall(e) /\ ~HasEvent(e, "store", d))

C10_Witness ==
    \E e \in Entries :
        /\ SetupRaisedAt(e, {"refresh"})
        /\ Len(frame[e].devices) = 2
        /\ frame[e].i = 1
        /\ frame[e].devices[2].device_id \in DOMAIN Devs(e)
====
